---- MODULE Spec2Model ----
(***************************************************************************)
(* batch-run: the Msg handlers of App::update (src/src/main.rs) and the    *)
(* future a Msg::Run starts: pipe(), spawn of the interpreter with the     *)
(* read end as stdin, one JSON record per argument written to the write    *)
(* end, flush, drop of the write end, wait on the child.                   *)
(*                                                                         *)
(* A String is the sequence of its code points; Utf8 gives the bytes Rust  *)
(* stores for it.  The script text is a sequence of one-character strings. *)
(* The bytes of the pipe are numbers 0..255.                               *)
(***************************************************************************)
EXTENDS Integers, Sequences, FiniteSets, TLC

\* ------------------------------------------------------------------ bounds
\* Longest argument list drawn for cli.args.
MaxArgs == 2
\* Editor and pick-list messages (ContentAction, InsertTab, Language) handled.
MaxUi == 1
\* Bytes the kernel buffers in one pipe.
PipeCap == 48
\* Most bytes one read(2) of the child takes.
ReadChunk == 32
\* Longest string the encoder specification draws.
MaxStrLen == 3

\* ------------------------------------------------------- strings and bytes
\* Code points: 'a', LF, '"', e-acute (2 bytes), euro sign (3 bytes),
\* U+1F600 (4 bytes).
Chars == {97, 10, 34, 233, 8364, 128512}

Min(a, b) == IF a < b THEN a ELSE b

RECURSIVE Flatten(_)
\* The concatenation of a sequence of sequences.
Flatten(ss) == IF ss = << >> THEN << >> ELSE Head(ss) \o Flatten(Tail(ss))

\* The UTF-8 encoding of one code point.
Utf8(c) ==
    IF c < 128 THEN << c >>
    ELSE IF c < 2048 THEN << 192 + (c \div 64), 128 + (c % 64) >>
    ELSE IF c < 65536 THEN
        << 224 + (c \div 4096), 128 + ((c \div 64) % 64), 128 + (c % 64) >>
    ELSE << 240 + (c \div 262144), 128 + ((c \div 4096) % 64),
            128 + ((c \div 64) % 64), 128 + (c % 64) >>

\* The bytes of a String.
Bytes(s) == Flatten([i \in 1..Len(s) |-> Utf8(s[i])])

\* str::len: the number of bytes of the string.
StrLen(s) == Len(Bytes(s))

\* s.chars().rev().collect::<String>()
CharsRev(s) == [i \in 1..Len(s) |-> s[Len(s) + 1 - i]]

\* InputData with idx counted from 1 (enumerate() taken one-based).
InputDataOneBased(arg, idx) ==
    [line |-> arg, idx |-> idx + 1, len |-> StrLen(arg),
     reversed |-> CharsRev(arg)]

\* InputData with len: arg.chars().count(), the number of characters.
InputDataCharCount(arg, idx) ==
    [line |-> arg, idx |-> idx, len |-> Len(arg), reversed |-> CharsRev(arg)]

\* InputData { line: &arg, idx, len: arg.len(), reversed: ... }
InputData(arg, idx) ==
    [line |-> arg, idx |-> idx, len |-> StrLen(arg), reversed |-> CharsRev(arg)]

RECURSIVE Decimal(_)
\* The decimal digits of a usize, as ASCII bytes.
Decimal(n) ==
    IF n < 10 THEN << 48 + n >> ELSE Decimal(n \div 10) \o << 48 + (n % 10) >>

HexDigit(d) == IF d < 10 THEN 48 + d ELSE 87 + d

\* Every character written as it is, control characters too.
EscapeNothing(c) == Utf8(c)

\* serde_json's escape of one character inside a string literal.
Escape(c) ==
    IF c = 34 THEN << 92, 34 >>
    ELSE IF c = 92 THEN << 92, 92 >>
    ELSE IF c = 8 THEN << 92, 98 >>
    ELSE IF c = 9 THEN << 92, 116 >>
    ELSE IF c = 10 THEN << 92, 110 >>
    ELSE IF c = 12 THEN << 92, 102 >>
    ELSE IF c = 13 THEN << 92, 114 >>
    ELSE IF c < 32 THEN << 92, 117, 48, 48, HexDigit(c \div 16), HexDigit(c % 16) >>
    ELSE Utf8(c)

\* A JSON string literal.
JsonStr(s) == << 34 >> \o Flatten([i \in 1..Len(s) |-> Escape(s[i])]) \o << 34 >>

\* The field names of InputData, as ASCII.
KeyLine == << 108, 105, 110, 101 >>
KeyIdx == << 105, 100, 120 >>
KeyLen == << 108, 101, 110 >>
KeyReversed == << 114, 101, 118, 101, 114, 115, 101, 100 >>

\* "name":
JsonKey(k) == << 34 >> \o k \o << 34, 58 >>

\* serde_json::to_writer(&mut w, &data): the compact form of the derived
\* Serialize, fields in declaration order.
ToJson(data) ==
    << 123 >> \o JsonKey(KeyLine) \o JsonStr(data.line)
    \o << 44 >> \o JsonKey(KeyIdx) \o Decimal(data.idx)
    \o << 44 >> \o JsonKey(KeyLen) \o Decimal(data.len)
    \o << 44 >> \o JsonKey(KeyReversed) \o JsonStr(data.reversed)
    \o << 125 >>

\* b"\n"
Newline == << 10 >>

\* ------------------------------------------------------------------- state
\* enum Language
Language == {"Zsh", "Bash", "Python", "Sh"}

\* #[display(..)] of Language
Display(l) ==
    CASE l = "Zsh" -> "zsh" [] l = "Bash" -> "bash"
      [] l = "Python" -> "python" [] l = "Sh" -> "sh"

\* #[arg(long, default_value_t = 4)] tabwidth
DefaultTabWidth == 4

\* Characters the editor is asked to insert.
ScriptChars == {"e"}

\* Strings given on the command line: "a", and e-acute followed by LF.
ArgA == << 97 >>
ArgB == << 233, 10 >>
ArgPool == {ArgA, ArgB}

\* Argument lists of at most n strings.
ArgLists(n) == UNION {[1..k -> ArgPool] : k \in 0..n}

\* What the script does with its standard input: "cat" reads it to its end
\* and exits, "idle" never reads and never exits, "quit" may read, close its
\* input and exit whenever it likes.
ChildKinds == {"cat", "idle", "quit"}

\* Exit codes a child ends with.
ExitCodes == {0, 1}

VARIABLES
    content,    \* App.content: the editor's text
    language,   \* App.language
    token,      \* App.settings.token
    cli,        \* App.cli: [tabwidth, args]
    runs,       \* the futures started by Msg::Run, in order of start
    pending,    \* Msg::Run messages (Ctrl+R) still to be delivered
    ui,         \* editor and pick-list messages handled so far
    enc         \* the record encoder applied to one string: [arg, idx, data, json]

vars == << content, language, token, cli, runs, pending, ui, enc >>
app == << content, language, token, cli >>

\* The child before spawn.
NoChild ==
    [state |-> "none", pid |-> 0, kind |-> "none", exe |-> "",
     argv |-> << >>, eof |-> FALSE, status |-> << >>]

\* A run that starts where the run before it stopped counting.
NewRunCounting(batch, lang, args) ==
    [batch |-> batch, lang |-> lang, args |-> args,
     pc |-> "pipe", pipe |-> 0, r |-> "none", w |-> "none",
     idx |-> IF runs = << >> THEN 0 ELSE runs[Len(runs)].idx,
     buf |-> << >>, out |-> << >>, rd |-> 0, made |-> << >>,
     child |-> NoChild, log |-> << >>, did |-> {}]

\* The state of a future when Msg::Run creates it: the three captures of
\* lines 86-88 and nothing else.
\*   pc    the await/call the future is at
\*   pipe  the pipe pipe() gave (0: none)
\*   r, w  the pipe's ends: "none", "held" by the future, "child" (r only),
\*         "closed"
\*   idx   the loop's enumerate() index
\*   buf   bytes the current write call has still to hand to the pipe
\*   out   every byte that entered the pipe;  rd  how many the child read
\*   made  the InputData values built so far
\*   log   what the future printed;  did  the calls it made
NewRun(batch, lang, args) ==
    [batch |-> batch, lang |-> lang, args |-> args,
     pc |-> "pipe", pipe |-> 0, r |-> "none", w |-> "none", idx |-> 0,
     buf |-> << >>, out |-> << >>, rd |-> 0, made |-> << >>,
     child |-> NoChild, log |-> << >>, did |-> {}]

\* eprintln!("<text>\n{err}")
ErrReport(text) == [msg |-> text, status |-> << >>]
\* eprintln!("{status}")
StatusReport(s) == [msg |-> "exit status", status |-> << s >>]

\* The match with a sentinel appended to the Python arm as well.
CommandForPythonSentinel(lang, batch) ==
    CASE lang = "Zsh" ->
           [exe |-> "/usr/bin/zsh",
            argv |-> << <<"--emulate">>, <<"zsh">>, <<"-c">>, batch,
                        <<"batch-script-zsh">> >>]
      [] lang = "Bash" ->
           [exe |-> "/usr/bin/bash",
            argv |-> << <<"-c">>, batch, <<"batch-script-bash">> >>]
      [] lang = "Python" ->
           [exe |-> "/usr/bin/python",
            argv |-> << <<"-c">>, batch, <<"batch-script-python">> >>]
      [] lang = "Sh" ->
           [exe |-> "/usr/bin/sh",
            argv |-> << <<"-c">>, batch, <<"batch-script-sh">> >>]

\* Command::new(exe).args(..).arg(batch)...: the match of lines 97-121.
CommandFor(lang, batch) ==
    CASE lang = "Zsh" ->
           [exe |-> "/usr/bin/zsh",
            argv |-> << <<"--emulate">>, <<"zsh">>, <<"-c">>, batch,
                        <<"batch-script-zsh">> >>]
      [] lang = "Bash" ->
           [exe |-> "/usr/bin/bash",
            argv |-> << <<"-c">>, batch, <<"batch-script-bash">> >>]
      [] lang = "Python" ->
           [exe |-> "/usr/bin/python", argv |-> << <<"-c">>, batch >>]
      [] lang = "Sh" ->
           [exe |-> "/usr/bin/sh",
            argv |-> << <<"-c">>, batch, <<"batch-script-sh">> >>]

\* Bytes in the pipe the child has not read.
Avail(run) == Len(run.out) - run.rd
\* Room left in the pipe.
Free(run) == PipeCap - Avail(run)

\* The encoder not in use.
NoEnc == [arg |-> << >>, idx |-> 0, data |-> << >>, json |-> << >>]

Init ==
    /\ content = << >>
    /\ language = "Zsh"
    /\ token = "zsh"
    /\ cli \in [tabwidth : {0, DefaultTabWidth}, args : ArgLists(MaxArgs)]
    /\ runs = << >>
    /\ pending = 1
    /\ ui = 0
    /\ enc = NoEnc

\* --------------------------------------------------------- the UI messages
\* Content::perform(action) for the editing actions.
Perform(text, action) ==
    IF action.edit = "Insert" THEN Append(text, action.ch)
    ELSE IF text = << >> THEN text
    ELSE SubSeq(text, 1, Len(text) - 1)

Actions ==
    [edit : {"Insert"}, ch : ScriptChars] \cup {[edit |-> "Backspace", ch |-> ""]}

\* Msg::ContentAction(action)
ContentAction(action) ==
    /\ ui < MaxUi
    /\ content' = Perform(content, action)
    /\ ui' = ui + 1
    /\ UNCHANGED << language, token, cli, runs, pending, enc >>

\* tabwidth spaces, or one tab when tabwidth is 0.
TabText(w) == IF w # 0 THEN [k \in 1..w |-> " "] ELSE << "\t" >>

\* Msg::InsertTab
InsertTab ==
    /\ ui < MaxUi
    /\ content' = content \o TabText(cli.tabwidth)
    /\ ui' = ui + 1
    /\ UNCHANGED << language, token, cli, runs, pending, enc >>

\* Msg::Language(language)
LanguageMsg(l) ==
    /\ ui < MaxUi
    /\ language' = l
    /\ token' = Display(l)
    /\ ui' = ui + 1
    /\ UNCHANGED << content, cli, runs, pending, enc >>

\* What Msg::Run moves into the future: content.text(), language, args.
Capture == [batch |-> content, lang |-> language, args |-> cli.args]

\* Msg::Run
Run ==
    /\ pending > 0
    /\ pending' = pending - 1
    /\ runs' = Append(runs, NewRun(Capture.batch, Capture.lang, Capture.args))
    /\ UNCHANGED << app, ui, enc >>

\* ------------------------------------------------- the future of Msg::Run
\* The future of run i takes one step, to the state `next`.
Step(i, next) ==
    /\ runs' = [runs EXCEPT ![i] = next]
    /\ UNCHANGED << app, pending, ui, enc >>

At(i, pc) == i \in DOMAIN runs /\ runs[i].pc = pc

\* `return` after eprintln! with a child handle that kills on drop: a
\* child that is running is ended.
ReturnKills(run, report) ==
    [run EXCEPT !.log = Append(@, report), !.pc = "done",
                !.w = IF @ = "held" THEN "closed" ELSE @,
                !.r = IF @ = "held" \/ run.child.state = "running"
                      THEN "closed" ELSE @,
                !.child.state = IF @ = "running" THEN "exited" ELSE @,
                !.child.status = IF run.child.state = "running"
                                 THEN << 1 >> ELSE @]

\* `return` after eprintln! with the write end leaked: it stays open.
ReturnKeepsW(run, report) ==
    [run EXCEPT !.log = Append(@, report), !.pc = "done",
                !.r = IF @ = "held" THEN "closed" ELSE @]

\* `return` after eprintln!: the future ends and its locals are dropped,
\* which closes the ends of the pipe it still holds.  The child handle is
\* dropped too; that neither kills nor reaps the child.
Return(run, report) ==
    [run EXCEPT !.log = Append(@, report), !.pc = "done",
                !.w = IF @ = "held" THEN "closed" ELSE @,
                !.r = IF @ = "held" THEN "closed" ELSE @]

\* The loop leaves out the last argument.
LoopHeadStopsShort(run) ==
    IF run.idx + 1 < Len(run.args)
    THEN LET data == InputData(run.args[run.idx + 1], run.idx)
         IN  [run EXCEPT !.pc = "json", !.buf = ToJson(data),
                         !.made = Append(@, data)]
    ELSE [run EXCEPT !.pc = "flush"]

\* The head of `for (idx, arg) in args.into_iter().enumerate()`: build the
\* next InputData and start to_writer on it, or leave the loop.
LoopHead(run) ==
    IF run.idx < Len(run.args)
    THEN LET data == InputData(run.args[run.idx + 1], run.idx)
         IN  [run EXCEPT !.pc = "json", !.buf = ToJson(data),
                         !.made = Append(@, data)]
    ELSE [run EXCEPT !.pc = "flush"]

\* The pipes the host has created.
Pipes == {runs[j].pipe : j \in DOMAIN runs} \ {0}
\* The processes the host has created.
Pids == {runs[j].child.pid : j \in DOMAIN runs} \ {0}

\* What the host gives to a pipe() or a spawn(): a pipe, a process, that
\* did not exist before.
FreshPipe == Cardinality(Pipes) + 1
FreshPid == Cardinality(Pids) + 1

\* pipe() is called once and its pipe kept for the runs that follow.
PipeCreatedOnce(run) ==
    [run EXCEPT !.pipe = IF Pipes = {} THEN FreshPipe ELSE CHOOSE q \in Pipes : TRUE,
                !.r = "held", !.w = "held", !.pc = "spawn",
                !.did = @ \cup {"pipe"}]

\* pipe() returned Ok((r, w)).
PipeCreated(run) ==
    [run EXCEPT !.pipe = FreshPipe, !.r = "held", !.w = "held",
                !.pc = "spawn", !.did = @ \cup {"pipe"}]

\* pipe() returned Err and the `return` is missing: the future goes on to
\* spawn.
PipeFailedNoReturn(run) ==
    [run EXCEPT !.log = Append(@, ErrReport("could not create pipe")),
                !.pc = "spawn", !.did = @ \cup {"pipe"}]

\* pipe() returned Err: lines 92-95.
PipeFailed(run) ==
    Return([run EXCEPT !.did = @ \cup {"pipe"}],
           ErrReport("could not create pipe"))

PipeOk(i) ==
    /\ At(i, "pipe")
    /\ Step(i, PipeCreated(runs[i]))

PipeErr(i) ==
    /\ At(i, "pipe")
    /\ Step(i, PipeFailed(runs[i]))

\* The command built from the App's fields at the time of the spawn.
SpawnCommandLive(run) == CommandFor(language, content)

\* The command the future spawns: built from the captured lang and batch.
SpawnCommand(run) == CommandFor(run.lang, run.batch)

\* spawn() returned Ok(child) and the future keeps its own copy of the
\* read end.
SpawnedKeepsReader(run, kind, cmd) ==
    LoopHead([run EXCEPT
        !.child = [state |-> "running", pid |-> FreshPid, kind |-> kind,
                   exe |-> cmd.exe, argv |-> cmd.argv, eof |-> FALSE,
                   status |-> << >>],
        !.did = @ \cup {"spawn"}])

\* spawn() returned Ok(child): the child runs with the read end as its
\* stdin, the Command (and with it the future's copy of r) is dropped, and
\* the loop is entered.
Spawned(run, kind, cmd) ==
    LoopHead([run EXCEPT
        !.child = [state |-> "running", pid |-> FreshPid, kind |-> kind,
                   exe |-> cmd.exe, argv |-> cmd.argv, eof |-> FALSE,
                   status |-> << >>],
        !.r = "child", !.did = @ \cup {"spawn"}])

\* spawn() returned Err and the `return` is missing: the loop is entered.
SpawnFailedNoReturn(run) ==
    LoopHead([run EXCEPT !.log = Append(@, ErrReport("could not spawn child")),
                         !.r = "closed", !.did = @ \cup {"spawn"}])

\* spawn() returned Err: lines 124-127.  The read end went into the Command
\* and is closed with it.
SpawnFailed(run) ==
    Return([run EXCEPT !.r = "closed", !.did = @ \cup {"spawn"}],
           ErrReport("could not spawn child"))

SpawnOk(i, kind) ==
    /\ At(i, "spawn")
    /\ Step(i, Spawned(runs[i], kind, SpawnCommand(runs[i])))

SpawnErr(i) ==
    /\ At(i, "spawn")
    /\ Step(i, SpawnFailed(runs[i]))

\* A write that took only a part of the bytes is started again from the
\* first byte.
AcceptResend(run) ==
    LET n == Min(Len(run.buf), Free(run))
    IN  [run EXCEPT !.out = @ \o SubSeq(run.buf, 1, n),
                    !.buf = IF n = Len(@) THEN << >> ELSE @,
                    !.did = @ \cup {"write"}]

\* A write to a pipe that has a reader: the bytes that fit go in.  It is
\* called with Free(run) > 0: a write to a full pipe blocks.  The pieces
\* to_writer hands to w one after the other are taken as one write of the
\* record's bytes, so a step ends where the record ends or the pipe is full.
Accept(run) ==
    LET n == Min(Len(run.buf), Free(run))
    IN  [run EXCEPT !.out = @ \o SubSeq(run.buf, 1, n),
                    !.buf = SubSeq(@, n + 1, Len(@)),
                    !.did = @ \cup {"write"}]

\* The write end can take bytes: some reader holds the read end, and the
\* pipe is not full.
CanWrite(run) == run.r = "child" /\ Free(run) > 0
\* No read end is open any more: write(2) fails with EPIPE.
BrokenPipe(run) == run.r = "closed"

\* to_writer went on; when its last byte is in, write_all(b"\n") starts.
JsonWritten(run) ==
    LET a == Accept(run)
    IN  IF a.buf = << >> THEN [a EXCEPT !.pc = "nl", !.buf = Newline] ELSE a

\* to_writer returned Err and the `return` is missing: the line terminator
\* is written next.
JsonFailedNoReturn(run) ==
    [run EXCEPT !.log = Append(@, ErrReport("could not write data to pipe")),
                !.pc = "nl", !.buf = Newline, !.did = @ \cup {"write"}]

\* to_writer returned Err: lines 139-142.
JsonFailed(run) ==
    Return([run EXCEPT !.did = @ \cup {"write"}],
           ErrReport("could not write data to pipe"))

\* write_all(b"\n") went on; when it is done the loop goes round.
NlWritten(run) ==
    LET a == Accept(run)
    IN  IF a.buf = << >> THEN LoopHead([a EXCEPT !.idx = @ + 1]) ELSE a

\* write_all(b"\n") returned Err and the `return` is missing: the loop goes
\* round.
NlFailedNoReturn(run) ==
    LoopHead([run EXCEPT
        !.log = Append(@, ErrReport("could not terminate data written to pipe")),
        !.idx = @ + 1, !.did = @ \cup {"write"}])

\* write_all(b"\n") returned Err: lines 143-146.
NlFailed(run) ==
    Return([run EXCEPT !.did = @ \cup {"write"}],
           ErrReport("could not terminate data written to pipe"))

WriteJsonOk(i) ==
    /\ At(i, "json") /\ CanWrite(runs[i])
    /\ Step(i, JsonWritten(runs[i]))

WriteJsonErr(i) ==
    /\ At(i, "json") /\ BrokenPipe(runs[i])
    /\ Step(i, JsonFailed(runs[i]))

WriteNlOk(i) ==
    /\ At(i, "nl") /\ CanWrite(runs[i])
    /\ Step(i, NlWritten(runs[i]))

WriteNlErr(i) ==
    /\ At(i, "nl") /\ BrokenPipe(runs[i])
    /\ Step(i, NlFailed(runs[i]))

\* w.flush() returned Ok.
Flushed(run) == [run EXCEPT !.pc = "drop", !.did = @ \cup {"flush"}]

\* w.flush() returned Err and the `return` is missing: drop and wait follow.
FlushFailedNoReturn(run) ==
    [run EXCEPT !.log = Append(@, ErrReport("could not flush pipe")),
                !.pc = "drop", !.did = @ \cup {"flush"}]

\* w.flush() returned Err: lines 149-152.
FlushFailed(run) ==
    Return([run EXCEPT !.did = @ \cup {"flush"}],
           ErrReport("could not flush pipe"))

FlushOk(i) ==
    /\ At(i, "flush")
    /\ Step(i, Flushed(runs[i]))

FlushErr(i) ==
    /\ At(i, "flush")
    /\ Step(i, FlushFailed(runs[i]))

\* child.wait() is called with w still held (drop(w) missing).
DroppedNothing(run) == [run EXCEPT !.pc = "wait", !.did = @ \cup {"wait"}]

\* drop(w), then child.wait() is called.
Dropped(run) == [run EXCEPT !.w = "closed", !.pc = "wait", !.did = @ \cup {"wait"}]

Drop(i) ==
    /\ At(i, "drop")
    /\ Step(i, Dropped(runs[i]))

\* child.wait().await returned Ok(status) and a status that is not a
\* success is taken for a failed wait.
WaitedNonZeroFails(run) ==
    [run EXCEPT
        !.log = Append(@, IF run.child.status[1] = 0
                          THEN StatusReport(run.child.status[1])
                          ELSE ErrReport("could not wait on child")),
        !.pc = "done", !.did = @ \cup {"reaped"}]

\* child.wait().await returned Ok(status), which reaps the child: line 156.
Waited(run) ==
    [run EXCEPT !.log = Append(@, StatusReport(run.child.status[1])),
                !.pc = "done", !.did = @ \cup {"reaped"}]

\* child.wait().await returned Err: line 157.
WaitFailed(run) ==
    [run EXCEPT !.log = Append(@, ErrReport("could not wait on child")),
                !.pc = "done"]

WaitOk(i) ==
    /\ At(i, "wait")
    /\ runs[i].child.state = "exited"
    /\ Step(i, Waited(runs[i]))

WaitErr(i) ==
    /\ At(i, "wait")
    /\ Step(i, WaitFailed(runs[i]))

\* ---------------------------------------------------------------- the child
Running(i) == i \in DOMAIN runs /\ runs[i].child.state = "running"

\* read(0, ..) returns 0: nothing is buffered and no write end is open.
AtEof(run) == run.r = "child" /\ Avail(run) = 0 /\ run.w = "closed"

\* The child reads from its stdin what one read(2) gives it.
ChildRead(i) ==
    /\ Running(i) /\ runs[i].child.kind \in {"cat", "quit"}
    /\ runs[i].r = "child" /\ Avail(runs[i]) > 0
    /\ Step(i, [runs[i] EXCEPT !.rd = @ + Min(ReadChunk, Avail(runs[i]))])

\* The child closes its stdin and goes on running.
ChildClose(i) ==
    /\ Running(i) /\ runs[i].child.kind = "quit"
    /\ runs[i].r = "child"
    /\ Step(i, [runs[i] EXCEPT !.r = "closed"])

\* The child exits with the given code; its descriptors are closed.  A
\* "cat" child exits when it has seen the end of its input.
ChildExit(i, code) ==
    /\ Running(i)
    /\ \/ runs[i].child.kind = "quit"
       \/ runs[i].child.kind = "cat" /\ AtEof(runs[i])
    /\ Step(i, [runs[i] EXCEPT !.child.state = "exited",
                               !.child.status = << code >>,
                               !.child.eof = AtEof(runs[i]),
                               !.r = "closed"])

\* ------------------------------------------------------------ specification
\* A step the future of run i takes when it is polled and the host lets
\* the call go through.  A pipe(), spawn(), flush() or wait() that returns
\* Err is the host's choice and is not among them.
Future(i) ==
    \/ PipeOk(i)
    \/ \E kind \in ChildKinds : SpawnOk(i, kind)
    \/ WriteJsonOk(i) \/ WriteJsonErr(i)
    \/ WriteNlOk(i) \/ WriteNlErr(i)
    \/ FlushOk(i)
    \/ Drop(i)
    \/ WaitOk(i)

\* A step of a child that reads its input to the end and then exits.
Cat(i) ==
    /\ i \in DOMAIN runs /\ runs[i].child.kind = "cat"
    /\ (ChildRead(i) \/ \E code \in ExitCodes : ChildExit(i, code))

Next ==
    \/ \E action \in Actions : ContentAction(action)
    \/ InsertTab
    \/ \E l \in Language : LanguageMsg(l)
    \/ Run
    \/ \E i \in DOMAIN runs : PipeOk(i)
    \/ \E i \in DOMAIN runs : PipeErr(i)
    \/ \E i \in DOMAIN runs, kind \in ChildKinds : SpawnOk(i, kind)
    \/ \E i \in DOMAIN runs : SpawnErr(i)
    \/ \E i \in DOMAIN runs : WriteJsonOk(i)
    \/ \E i \in DOMAIN runs : WriteJsonErr(i)
    \/ \E i \in DOMAIN runs : WriteNlOk(i)
    \/ \E i \in DOMAIN runs : WriteNlErr(i)
    \/ \E i \in DOMAIN runs : FlushOk(i)
    \/ \E i \in DOMAIN runs : FlushErr(i)
    \/ \E i \in DOMAIN runs : Drop(i)
    \/ \E i \in DOMAIN runs : WaitOk(i)
    \/ \E i \in DOMAIN runs : WaitErr(i)
    \/ \E i \in DOMAIN runs : ChildRead(i)
    \/ \E i \in DOMAIN runs : ChildClose(i)
    \/ \E i \in DOMAIN runs, code \in ExitCodes : ChildExit(i, code)

Spec == Init /\ [][Next]_vars

\* The runs that can exist when one Msg::Run is delivered.
RunIds == {1}

\* One argument list of each length: "a", then e-acute LF, and so on in
\* turn.
TurnLists(n) ==
    {[k \in 1..m |-> IF k % 2 = 1 THEN ArgA ELSE ArgB] : m \in 0..n}

\* The App after MaxUi - 1 messages that changed nothing (Backspace in an
\* empty editor), with the default tabwidth: one editor or pick-list
\* message and one Msg::Run are still to come.
FairInit ==
    /\ content = << >>
    /\ language = "Zsh"
    /\ token = "zsh"
    /\ cli \in [tabwidth : {DefaultTabWidth}, args : TurnLists(MaxArgs)]
    /\ runs = << >>
    /\ pending = 1
    /\ ui = MaxUi - 1
    /\ enc = NoEnc

\* The executor polls every future that can go on, and a child that reads
\* its input to the end is scheduled by the host.
FairSpec ==
    /\ FairInit /\ [][Next]_vars
    /\ \A i \in RunIds : WF_vars(Future(i))
    /\ \A i \in RunIds : WF_vars(Cat(i))

\* The App after MaxUi messages that changed nothing, started with no
\* argument or with one: two Msg::Run are still to come, so that the
\* second may be sent while the first run's future is still at work.
TwoRunsInit ==
    /\ content = << >>
    /\ language = "Zsh"
    /\ token = "zsh"
    /\ cli \in [tabwidth : {DefaultTabWidth}, args : {<< >>, << ArgA >>}]
    /\ runs = << >>
    /\ pending = 2
    /\ ui = MaxUi
    /\ enc = NoEnc

\* The run button, the futures and the children; the editor and the pick
\* list are left alone.
TwoRunsNext ==
    \/ Run
    \/ \E i \in DOMAIN runs : PipeOk(i)
    \/ \E i \in DOMAIN runs : PipeErr(i)
    \/ \E i \in DOMAIN runs, kind \in ChildKinds : SpawnOk(i, kind)
    \/ \E i \in DOMAIN runs : SpawnErr(i)
    \/ \E i \in DOMAIN runs : WriteJsonOk(i)
    \/ \E i \in DOMAIN runs : WriteJsonErr(i)
    \/ \E i \in DOMAIN runs : WriteNlOk(i)
    \/ \E i \in DOMAIN runs : WriteNlErr(i)
    \/ \E i \in DOMAIN runs : FlushOk(i)
    \/ \E i \in DOMAIN runs : FlushErr(i)
    \/ \E i \in DOMAIN runs : Drop(i)
    \/ \E i \in DOMAIN runs : WaitOk(i)
    \/ \E i \in DOMAIN runs : WaitErr(i)
    \/ \E i \in DOMAIN runs : ChildRead(i)
    \/ \E i \in DOMAIN runs : ChildClose(i)
    \/ \E i \in DOMAIN runs, code \in ExitCodes : ChildExit(i, code)

TwoRunsSpec == TwoRunsInit /\ [][TwoRunsNext]_vars

\* ------------------------------------------------- the encoder on its own
\* Strings of at most n characters.
Strings(n) == UNION {[1..k -> Chars] : k \in 0..n}

\* One string and one position are given to the body of the loop.
EncInit ==
    /\ content = << >>
    /\ language = "Zsh"
    /\ token = "zsh"
    /\ cli = [tabwidth |-> DefaultTabWidth, args |-> << >>]
    /\ runs = << >>
    /\ pending = 0
    /\ ui = 0
    /\ enc \in [arg : Strings(MaxStrLen), idx : 0..MaxArgs, data : {<< >>},
                json : {<< >>}]

\* Lines 131-138 on enc.arg at position enc.idx: the InputData, and the
\* bytes to_writer produces for it.
Encode ==
    /\ enc.data = << >>
    /\ LET data == InputData(enc.arg, enc.idx)
       IN  enc' = [enc EXCEPT !.data = << data >>, !.json = ToJson(data)]
    /\ UNCHANGED << content, language, token, cli, runs, pending, ui >>

EncNext == Encode

EncSpec == EncInit /\ [][EncNext]_vars

\* ------------------------------------------------------------- vocabulary
\* The terminal outcome a report stands for (spec 4.3): the exit status is
\* Completed, an error names the stage that printed it.
OutcomeOf(report) ==
    CASE report.msg = "exit status" -> "Completed"
      [] report.msg = "could not create pipe" -> "Failed(Spawning)"
      [] report.msg = "could not spawn child" -> "Failed(Spawning)"
      [] report.msg = "could not write data to pipe" -> "Failed(Streaming)"
      [] report.msg = "could not terminate data written to pipe" ->
           "Failed(Streaming)"
      [] report.msg = "could not flush pipe" -> "Failed(Draining)"
      [] report.msg = "could not wait on child" -> "Failed(Awaiting)"
      [] OTHER -> "?"

\* The outcomes a run has reported.
Outcomes(run) == {OutcomeOf(run.log[k]) : k \in DOMAIN run.log}

\* The run printed the given error.
Reported(run, text) == \E k \in DOMAIN run.log : run.log[k] = ErrReport(text)

\* The stream of records for an argument list: each record's JSON and one
\* line terminator, in input order.
RecordStream(recs) ==
    Flatten([k \in 1..Len(recs) |-> ToJson(recs[k]) \o Newline])

\* The loop has ended without a failed write: flush() has been reached.
LoopDone(run) == run.pc \in {"flush", "drop", "wait"} \/ "flush" \in run.did

\* ------------------------------------------------------------------ claims
\* C1: a run in which pipe creation, spawn and every write succeed has
\* written exactly N records, in input order, the k-th carrying idx = k and
\* line = the k-th argument: no record skipped, duplicated or reordered.
C1_AllRecordsInOrder ==
    \A i \in DOMAIN runs :
        LoopDone(runs[i]) =>
            /\ Len(runs[i].made) = Len(cli.args)
            /\ \A k \in 1..Len(cli.args) :
                /\ runs[i].made[k].idx = k - 1
                /\ runs[i].made[k].line = cli.args[k]
            /\ runs[i].out = RecordStream(runs[i].made)

\* A run has streamed two different arguments and left the loop.
C1_Witness ==
    \E i \in DOMAIN runs :
        /\ LoopDone(runs[i])
        /\ Len(cli.args) = MaxArgs
        /\ cli.args[1] # cli.args[2]
        /\ Len(runs[i].out) > PipeCap

\* The width of a code point in UTF-8, by its range (RFC 3629).
Utf8Width(c) ==
    IF c <= 127 THEN 1 ELSE IF c <= 2047 THEN 2 ELSE IF c <= 65535 THEN 3 ELSE 4

RECURSIVE ByteCount(_)
\* The number of bytes a string takes: the sum of its characters' widths.
ByteCount(s) == IF s = << >> THEN 0 ELSE Utf8Width(Head(s)) + ByteCount(Tail(s))

\* Every InputData built so far, by a run or by the encoder on its own.
Built ==
    {enc.data[k] : k \in DOMAIN enc.data}
    \cup UNION {{runs[i].made[k] : k \in DOMAIN runs[i].made} : i \in DOMAIN runs}

\* C3: in every record len is the byte length of line, not its character
\* count, and reversed is line's code points back to front, so that
\* reversing reversed gives line again; also where bytes and characters
\* differ in number.
C3_LenAndReversed ==
    \A d \in Built :
        /\ d.len = ByteCount(d.line)
        /\ Len(d.reversed) = Len(d.line)
        /\ \A j \in 1..Len(d.line) : d.reversed[j] = d.line[Len(d.line) + 1 - j]
        /\ CharsRev(d.reversed) = d.line

\* A record of a string with characters of two, three and four bytes has
\* been built: nine bytes in three characters, and not a palindrome.
C3_Witness ==
    \E d \in Built :
        /\ d.line = << 233, 8364, 128512 >>
        /\ d.len = 9
        /\ d.reversed = << 128512, 8364, 233 >>

\* The table of spec 4.1: the executable of a selection.
TableExe(sel) ==
    CASE sel = "Zsh" -> "/usr/bin/zsh" [] sel = "Bash" -> "/usr/bin/bash"
      [] sel = "Python" -> "/usr/bin/python" [] sel = "Sh" -> "/usr/bin/sh"

\* The table of spec 4.1: the argument template of a selection, with the
\* place of the script marked.
ScriptHere == << "<script>" >>
TableArgs(sel) ==
    CASE sel = "Zsh" ->
           << <<"--emulate">>, <<"zsh">>, <<"-c">>, ScriptHere,
              <<"batch-script-zsh">> >>
      [] sel = "Bash" -> << <<"-c">>, ScriptHere, <<"batch-script-bash">> >>
      [] sel = "Python" -> << <<"-c">>, ScriptHere >>
      [] sel = "Sh" -> << <<"-c">>, ScriptHere, <<"batch-script-sh">> >>

\* The command is the table's row for the selection, with the script in
\* its place and nothing else depending on the script.
IsRowOf(exe, argv, sel, script) ==
    /\ exe = TableExe(sel)
    /\ Len(argv) = Len(TableArgs(sel))
    /\ \A p \in 1..Len(argv) :
        IF TableArgs(sel)[p] = ScriptHere THEN argv[p] = script
        ELSE argv[p] = TableArgs(sel)[p]

\* C4: the spawned command is exactly the table's executable and argument
\* vector for the selection (Python without a trailing sentinel), and the
\* script text fills the script argument and changes nothing else.
C4_ArgvIsTableRow ==
    \A i \in DOMAIN runs :
        runs[i].child.state # "none" =>
            IsRowOf(runs[i].child.exe, runs[i].child.argv, runs[i].lang,
                    runs[i].batch)

\* A Python child has been spawned: two arguments, no sentinel.
C4_Witness ==
    \E i \in DOMAIN runs :
        /\ runs[i].child.state = "running"
        /\ runs[i].lang = "Python"
        /\ runs[i].child.exe = "/usr/bin/python"
        /\ Len(runs[i].child.argv) = 2

\* The run's captures are those of the state.
CapturedFrom(run, text, sel, args) ==
    run.batch = text /\ run.lang = sel /\ run.args = args

\* C5: a run uses the script, the selection and the arguments in effect
\* when Msg::Run was handled: a new run holds the App's values of that
\* moment, no later message changes what a run holds, the child's command
\* is built from them and the records are those of the captured arguments.
C5_CapturedAtRun ==
    [][\A i \in DOMAIN runs' :
        /\ IF i \in DOMAIN runs
           THEN CapturedFrom(runs'[i], runs[i].batch, runs[i].lang, runs[i].args)
           ELSE CapturedFrom(runs'[i], content, language, cli.args)
        /\ runs'[i].child.state # "none" =>
            IsRowOf(runs'[i].child.exe, runs'[i].child.argv, runs'[i].lang,
                    runs'[i].batch)
        /\ \A k \in DOMAIN runs'[i].made :
            runs'[i].made[k].line = runs'[i].args[k]
        /\ i \in DOMAIN runs /\ runs[i].child.state # "none" =>
            /\ runs'[i].child.exe = runs[i].child.exe
            /\ runs'[i].child.argv = runs[i].child.argv
      ]_vars

\* The selection was changed after Msg::Run, while the run is in flight:
\* the child runs the interpreter selected at Msg::Run and is sent records.
C5_Witness ==
    \E i \in DOMAIN runs :
        /\ runs[i].child.state = "running"
        /\ runs[i].lang = "Zsh" /\ language = "Python"
        /\ runs[i].child.exe = "/usr/bin/zsh"
        /\ "spawn" \in runs[i].did /\ runs[i].out # << >>

\* spawn() was called in the run and gave no child.
SpawnHasFailed(run) == "spawn" \in run.did /\ run.child.state = "none"

\* C6: when the spawn fails the run ends in Failed(Spawning) with that one
\* error reported, no byte ever written to the pipe, the write handle
\* released, and no write, flush or wait performed.
C6_SpawnFailure ==
    \A i \in DOMAIN runs :
        SpawnHasFailed(runs[i]) =>
            /\ runs[i].pc = "done"
            /\ runs[i].log = << ErrReport("could not spawn child") >>
            /\ Outcomes(runs[i]) = {"Failed(Spawning)"}
            /\ runs[i].out = << >>
            /\ runs[i].w = "closed"
            /\ runs[i].did \cap {"write", "flush", "wait"} = {}

\* A spawn has failed in a run that had arguments to stream.
C6_Witness ==
    \E i \in DOMAIN runs :
        /\ SpawnHasFailed(runs[i])
        /\ Reported(runs[i], "could not spawn child")
        /\ Len(runs[i].args) = MaxArgs

\* pipe() was called in the run and gave no pipe.
PipeHasFailed(run) == "pipe" \in run.did /\ run.w = "none"

\* C7: when the pipe cannot be created the run is reported as failed and
\* ends without a spawn attempt: no child is ever created in it.
C7_PipeFailure ==
    \A i \in DOMAIN runs :
        PipeHasFailed(runs[i]) =>
            /\ runs[i].pc = "done"
            /\ runs[i].log = << ErrReport("could not create pipe") >>
            /\ "spawn" \notin runs[i].did
            /\ runs[i].child = NoChild

\* A pipe creation has failed.
C7_Witness ==
    \E i \in DOMAIN runs :
        /\ PipeHasFailed(runs[i])
        /\ Reported(runs[i], "could not create pipe")
        /\ runs[i].pc = "done"

\* A write of a record or of its line terminator has failed in the run.
WriteHasFailed(run) ==
    \/ Reported(run, "could not write data to pipe")
    \/ Reported(run, "could not terminate data written to pipe")

\* C8: when a write of a record or of its terminator fails, streaming
\* stops at once: the run is ended in Failed(Streaming) with that one
\* error reported, no later record is built or written (what is in the
\* pipe ends inside the record that failed), nothing is flushed or waited
\* for, and from then on no byte enters the pipe: there is no retry.
C8_WriteFailureStops ==
    [][\A i \in DOMAIN runs' :
        WriteHasFailed(runs'[i]) =>
            /\ runs'[i].pc = "done"
            /\ Len(runs'[i].log) = 1
            /\ Outcomes(runs'[i]) = {"Failed(Streaming)"}
            /\ Len(runs'[i].made) = runs'[i].idx + 1
            /\ Len(runs'[i].out) <= Len(RecordStream(runs'[i].made))
            /\ Len(runs'[i].out) >=
                 Len(RecordStream(SubSeq(runs'[i].made, 1, runs'[i].idx)))
            /\ runs'[i].did \cap {"flush", "wait"} = {}
            /\ i \in DOMAIN runs /\ WriteHasFailed(runs[i]) =>
                /\ runs'[i].out = runs[i].out
                /\ runs'[i].log = runs[i].log
                /\ runs'[i].made = runs[i].made
      ]_vars

\* A write has failed inside the first record with a second one left to
\* send, and the child has taken a step since.
C8_Witness ==
    \E i \in DOMAIN runs :
        /\ Reported(runs[i], "could not write data to pipe")
        /\ runs[i].idx = 0 /\ Len(runs[i].args) = MaxArgs
        /\ runs[i].out # << >>
        /\ runs[i].child.state = "exited"

\* The reports a run can end with.
TerminalOutcomes ==
    {"Completed", "Failed(Spawning)", "Failed(Streaming)", "Failed(Draining)",
     "Failed(Awaiting)"}

\* C9: every run gives exactly one terminal outcome, Completed with the
\* exit status or Failed with the stage's error: a run that has ended has
\* printed exactly one report, and no run ever prints two.
C9_OneOutcome ==
    \A i \in DOMAIN runs :
        /\ Len(runs[i].log) <= 1
        /\ runs[i].pc = "done" <=> Len(runs[i].log) = 1
        /\ Outcomes(runs[i]) \subseteq TerminalOutcomes
        /\ \A k \in DOMAIN runs[i].log :
            OutcomeOf(runs[i].log[k]) = "Completed" <=>
                runs[i].log[k].status # << >>

\* A run has ended after a failed flush, with its one report.
C9_Witness ==
    \E i \in DOMAIN runs :
        /\ runs[i].pc = "done"
        /\ runs[i].log = << ErrReport("could not flush pipe") >>

\* The whole stream of an argument list.
FullStream(args) ==
    RecordStream([k \in 1..Len(args) |-> InputData(args[k], k - 1)])

\* The child of run i never reads its input and the records of the run do
\* not fit into the pipe.
NeverReadAndTooLarge(i) ==
    /\ i \in DOMAIN runs
    /\ runs[i].child.kind = "idle"
    /\ Len(FullStream(runs[i].args)) > PipeCap

\* C2: when the child never reads its input and the serialized records
\* exceed the pipe's capacity, the run eventually ends with a write error,
\* Failed(Streaming): it does not stay blocked in the Streaming stage.
C2_WriteErrorNotHang ==
    \A i \in RunIds :
        NeverReadAndTooLarge(i) ~>
            (/\ i \in DOMAIN runs
             /\ runs[i].pc = "done"
             /\ Outcomes(runs[i]) = {"Failed(Streaming)"})

\* The child of run i reads its input to the end and then exits.
ReadsToEnd(i) == i \in DOMAIN runs /\ runs[i].child.kind = "cat"

\* No flush() and no wait() has returned Err.
HostLetsThrough ==
    \A i \in DOMAIN runs :
        /\ ~Reported(runs[i], "could not flush pipe")
        /\ ~Reported(runs[i], "could not wait on child")

\* Run i has ended Completed with its child's exit status, the child having
\* read every record and then the end of its input.
CompletedWithStatus(i) ==
    /\ i \in DOMAIN runs
    /\ runs[i].pc = "done"
    /\ runs[i].child.state = "exited"
    /\ runs[i].log = << StatusReport(runs[i].child.status[1]) >>
    /\ runs[i].out = FullStream(cli.args)
    /\ runs[i].rd = Len(runs[i].out)
    /\ runs[i].child.eof

\* C10: when the spawned child keeps reading its standard input to the end
\* and then exits, the run eventually ends Completed with the child's exit
\* status, all records delivered and the end of input seen by the child
\* after the last of them, for every argument list (the empty one too);
\* flush() and wait() themselves are taken to return Ok.
C10_ReaderCompletes ==
    \A i \in RunIds :
        ([]HostLetsThrough) => (ReadsToEnd(i) ~> CompletedWithStatus(i))

\* A run whose child read two records and then the end of its input has
\* ended with the child's exit status, here a non-zero one.
C10_Witness ==
    \E i \in DOMAIN runs :
        /\ ReadsToEnd(i) /\ CompletedWithStatus(i)
        /\ Len(cli.args) = MaxArgs
        /\ runs[i].child.status = << 1 >>

\* The same with no argument at all.
C10_WitnessEmpty ==
    \E i \in DOMAIN runs :
        /\ ReadsToEnd(i) /\ CompletedWithStatus(i)
        /\ cli.args = << >>

\* How often the byte b occurs in the byte sequence bs.
CountOf(b, bs) == Cardinality({k \in DOMAIN bs : bs[k] = b})

\* The line terminator byte.
LF == Head(Newline)

\* C11: the stream is line-framed.  No record's serialized form holds a
\* line terminator byte, also when the argument holds newline characters:
\* the terminators that entered the pipe are exactly those written after
\* the records completed so far, one each.  After a fully successful
\* stream of N records the pipe has received exactly N of them, the last
\* byte being one.
C11_LineFramed ==
    /\ CountOf(LF, enc.json) = 0
    /\ \A i \in DOMAIN runs :
        /\ runs[i].pc = "json" => CountOf(LF, runs[i].buf) = 0
        /\ CountOf(LF, runs[i].out) = runs[i].idx
        /\ LoopDone(runs[i]) =>
            /\ CountOf(LF, runs[i].out) = Len(cli.args)
            /\ Len(cli.args) > 0 => runs[i].out[Len(runs[i].out)] = LF

\* A run has streamed two records, one of an argument that holds a
\* newline, and the pipe has received two line terminators.
C11_Witness ==
    \E i \in DOMAIN runs :
        /\ LoopDone(runs[i])
        /\ cli.args = << ArgB, ArgA >>
        /\ CountOf(10, ArgB) = 1
        /\ CountOf(LF, runs[i].out) = 2

\* C12: a batch is idempotent. Two runs over the same argument list have
\* put the same records, hence the same bytes, into their pipes once each
\* has left its loop, whatever their scripts did and however their steps
\* were interleaved: nothing of one run is carried into the next.
C12_Idempotent ==
    \A i \in DOMAIN runs : \A j \in DOMAIN runs :
        (runs[i].args = runs[j].args /\ LoopDone(runs[i]) /\ LoopDone(runs[j]))
            => /\ runs[i].made = runs[j].made
               /\ runs[i].out = runs[j].out

\* Two runs over one argument have both left their loops, the second
\* started before the first reported, their scripts behaving differently.
C12_Witness ==
    /\ Len(runs) = 2
    /\ runs[1].args = << ArgA >> /\ runs[2].args = << ArgA >>
    /\ LoopDone(runs[1]) /\ LoopDone(runs[2])
    /\ runs[1].pc # "done"
    /\ runs[1].child.kind = "cat" /\ runs[2].child.kind = "quit"
    /\ runs[2].out # << >>

\* Every record of the run and its line terminator have entered the pipe.
AllWritten(run) ==
    /\ run.idx = Len(run.args)
    /\ CountOf(LF, run.out) = Len(run.args)

\* flush() has been called and has returned Ok.
FlushSucceeded(run) ==
    "flush" \in run.did /\ ~Reported(run, "could not flush pipe")

\* C13 as stated: in every run that has spawned its child, the write handle is
\* closed only after all N records have been written and the flush has
\* succeeded.  A run that returns on a failed write or a failed flush drops
\* w there, with records missing or without a successful flush.
C13_ClosedOnlyAfterFlush ==
    \A i \in DOMAIN runs :
        (runs[i].w = "closed" /\ runs[i].child.state # "none")
            => AllWritten(runs[i]) /\ FlushSucceeded(runs[i])

\* C13, amended: in a run that has not failed in Spawning, Streaming or
\* Draining the write handle is closed only after all N records have been
\* written and the flush has succeeded; child.wait() is never called, and
\* never pending, with the write handle open; and a write handle that is
\* closed earlier is closed by the return of a failed run, which never
\* waits.
C13_DropThenWait ==
    \A i \in DOMAIN runs :
        /\ (runs[i].pc = "wait" \/ "wait" \in runs[i].did) =>
               /\ runs[i].w = "closed"
               /\ AllWritten(runs[i]) /\ FlushSucceeded(runs[i])
        /\ runs[i].pc = "drop" =>
               runs[i].w = "held" /\ AllWritten(runs[i]) /\ FlushSucceeded(runs[i])
        /\ (runs[i].w = "closed" /\ "wait" \notin runs[i].did) =>
               /\ runs[i].pc = "done"
               /\ Outcomes(runs[i]) \subseteq
                      {"Failed(Spawning)", "Failed(Streaming)", "Failed(Draining)"}

\* A run has written its two records, flushed, closed w and is waiting for
\* a child that has not exited yet.
C13_Witness ==
    \E i \in DOMAIN runs :
        /\ runs[i].pc = "wait"
        /\ Len(runs[i].args) = 2
        /\ runs[i].idx = 2
        /\ runs[i].w = "closed"
        /\ runs[i].child.state = "running"

\* C14: runs that overlap in time share neither pipe nor child.  Any two
\* runs hold different pipes and have spawned different processes, so the
\* bytes a run has written are in its own pipe, where only its own child
\* reads them; the status a run reports is the status of the child it
\* spawned; and a step of one run's future or child changes nothing of any
\* other run.
C14_OwnPipeAndChild ==
    /\ [](\A i \in DOMAIN runs :
            /\ \A j \in DOMAIN runs \ {i} :
                /\ runs[i].pipe # 0 => runs[i].pipe # runs[j].pipe
                /\ runs[i].child.pid # 0 =>
                       runs[i].child.pid # runs[j].child.pid
            /\ runs[i].rd <= Len(runs[i].out)
            /\ \A k \in DOMAIN runs[i].log :
                   runs[i].log[k].msg = "exit status" =>
                       /\ runs[i].child.state = "exited"
                       /\ runs[i].log[k].status = runs[i].child.status)
    /\ [][\A i \in DOMAIN runs : \A j \in DOMAIN runs \ {i} :
            runs'[i] # runs[i] => runs'[j] = runs[j]]_vars

\* Two runs overlap: both children are running and each pipe holds bytes
\* its child has not read yet.
C14_Witness ==
    /\ Len(runs) = 2
    /\ \A i \in {1, 2} :
        /\ runs[i].child.state = "running"
        /\ runs[i].pc \in {"flush", "drop", "wait"}
        /\ runs[i].rd < Len(runs[i].out)
    /\ runs[1].pipe # runs[2].pipe
    /\ runs[1].child.pid # runs[2].child.pid

\* The stages of a run in their order (spec 4.3).  Resolving is the pure
\* computation of the argv from the captured lang and batch and has no
\* state of its own; a future that has not spawned yet is in Spawning.
Stages == << "Resolving", "Spawning", "Streaming", "Draining", "Awaiting" >>

\* The stage a run is in, as an index into Stages; a run that has ended is
\* past the last stage.
StageOf(run) ==
    CASE run.pc \in {"pipe", "spawn"} -> 2
      [] run.pc \in {"json", "nl"} -> 3
      [] run.pc \in {"flush", "drop"} -> 4
      [] run.pc = "wait" -> 5
      [] run.pc = "done" -> Len(Stages) + 1

\* The outcome of a failure in the k-th stage.
FailedAt(k) ==
    CASE k = 2 -> "Failed(Spawning)" [] k = 3 -> "Failed(Streaming)"
      [] k = 4 -> "Failed(Draining)" [] k = 5 -> "Failed(Awaiting)"

\* The calls a run makes in the k-th stage; the wait is called as the run
\* leaves Draining, and reaps the child when it returns Ok in Awaiting.
CallsOf(k) ==
    CASE k = 2 -> {"pipe", "spawn"} [] k = 3 -> {"write"}
      [] k = 4 -> {"flush", "wait"} [] k = 5 -> {"reaped"} [] OTHER -> {}

\* What the future of a run has done: everything but the child's side.
FutureSide(run) ==
    << run.pc, run.idx, run.buf, run.out, run.made, run.log, run.did,
       run.w, run.child.pid >>

C16_WaitOkCompletes ==
    \A i \in DOMAIN runs :
        /\ "reaped" \in runs[i].did =>
              /\ runs[i].pc = "done"
              /\ runs[i].child.state = "exited"
              /\ runs[i].log = << StatusReport(runs[i].child.status[1]) >>
              /\ Outcomes(runs[i]) = {"Completed"}
        /\ "Failed(Awaiting)" \in Outcomes(runs[i]) =>
              /\ "wait" \in runs[i].did /\ "reaped" \notin runs[i].did
              /\ runs[i].log = << ErrReport("could not wait on child") >>
        /\ (runs[i].pc = "done" /\ "wait" \in runs[i].did
                /\ "reaped" \notin runs[i].did) =>
              Outcomes(runs[i]) = {"Failed(Awaiting)"}

\* The wait returned Ok for a child that exited with a status that is not
\* zero, and the run is Completed with that status.
C16_Witness ==
    \E i \in DOMAIN runs :
        /\ "reaped" \in runs[i].did
        /\ runs[i].child.status = << 1 >>
        /\ runs[i].log = << StatusReport(1) >>

\* The child of the run has exited or has closed its standard input.
ChildGone(run) ==
    run.child.state = "exited" \/ ("spawn" \in run.did /\ run.r = "closed")

\* C17: once spawn has been attempted the future holds no read end, and no
\* step of the future takes a byte out of the pipe: the child is the only
\* reader.  So when the child has exited or closed its input no read end
\* is open, and a run that is in a write is not blocked: the write can
\* only fail, and the next step of the future reports the write error.
C17_ChildIsOnlyReader ==
    /\ [](\A i \in DOMAIN runs :
            /\ "spawn" \in runs[i].did => runs[i].r \in {"child", "closed"}
            /\ ChildGone(runs[i]) => runs[i].r = "closed"
            /\ (runs[i].pc \in {"json", "nl"} /\ ChildGone(runs[i])) =>
                  /\ ~CanWrite(runs[i])
                  /\ ENABLED (WriteJsonErr(i) \/ WriteNlErr(i)))
    /\ [][\A i \in DOMAIN runs :
            FutureSide(runs'[i]) # FutureSide(runs[i]) =>
                /\ runs'[i].rd = runs[i].rd
                /\ (runs[i].pc \in {"json", "nl"} /\ ChildGone(runs[i])) =>
                      WriteHasFailed(runs'[i]) /\ runs'[i].pc = "done"
       ]_vars

\* The child exited while the future was in a write with bytes of the
\* record still to send, and the future has reported the write error.
C17_Witness ==
    \E i \in DOMAIN runs :
        /\ runs[i].child.state = "exited"
        /\ runs[i].r = "closed"
        /\ Reported(runs[i], "could not write data to pipe")
        /\ runs[i].buf # << >>
        /\ runs[i].out # << >>

\* Run i has ended in a failure of Streaming or of Draining.
FailedMidway(i) ==
    /\ i \in DOMAIN runs
    /\ runs[i].pc = "done"
    /\ Outcomes(runs[i]) \cap {"Failed(Streaming)", "Failed(Draining)"} # {}

\* The child of run i has read the end of its input.
SeenEof(i) == i \in DOMAIN runs /\ runs[i].child.eof

\* C18: a run that has ended, with whatever outcome, does not hold the
\* write end of its pipe; and when a run has failed in Streaming or in
\* Draining, a child that keeps reading its input eventually reads the end
\* of it.
C18_WriteEndReleased ==
    /\ [](\A i \in DOMAIN runs : runs[i].pc = "done" => runs[i].w # "held")
    /\ \A i \in RunIds : (ReadsToEnd(i) /\ FailedMidway(i)) ~> SeenEof(i)

\* A flush failed after two records, the run ended in Failed(Draining)
\* with its child still running, and the child then read both records and
\* the end of its input.
C18_Witness ==
    \E i \in DOMAIN runs :
        /\ ReadsToEnd(i) /\ FailedMidway(i) /\ SeenEof(i)
        /\ runs[i].w = "closed"
        /\ Len(runs[i].args) = 2
        /\ runs[i].rd = Len(FullStream(runs[i].args))

\* The byte sequence a is the start of the byte sequence b.
IsPrefix(a, b) == Len(a) <= Len(b) /\ a = SubSeq(b, 1, Len(a))

\* C19: what has entered the pipe of a run is at every moment the start of
\* the run's full record stream, so it is whole records in input order
\* followed by at most the start of the next one; after a failed write it
\* is a proper start, the records before the failed one being whole.
C19_PrefixOfStream ==
    \A i \in DOMAIN runs :
        /\ IsPrefix(runs[i].out, FullStream(runs[i].args))
        /\ WriteHasFailed(runs[i]) =>
              /\ Len(runs[i].out) < Len(FullStream(runs[i].args))
              /\ CountOf(LF, runs[i].out) = runs[i].idx
              /\ runs[i].idx < Len(runs[i].args)

\* A write failed in the second record: the pipe has received the first
\* record whole and the second in part.
C19_Witness ==
    \E i \in DOMAIN runs :
        /\ WriteHasFailed(runs[i])
        /\ runs[i].idx = 1
        /\ runs[i].out # << >>
        /\ runs[i].out[Len(runs[i].out)] # LF

\* C20: a run that fails in Streaming or in Draining has spawned its child
\* and ends without calling wait and without a status in its report; the
\* step that ends it leaves the child as it was, running if it was
\* running: the child is neither waited for nor killed.
C20_ChildLeftAlone ==
    /\ [](\A i \in DOMAIN runs :
            FailedMidway(i) =>
                /\ "spawn" \in runs[i].did /\ runs[i].child.state # "none"
                /\ runs[i].did \cap {"wait", "reaped"} = {}
                /\ \A k \in DOMAIN runs[i].log : runs[i].log[k].status = << >>)
    /\ [][\A i \in DOMAIN runs :
            (~FailedMidway(i) /\ FailedMidway(i)') =>
                runs'[i].child = runs[i].child
       ]_vars

\* A run has failed in Streaming because its child closed its input, and
\* has ended; the child is still running.
C20_Witness ==
    \E i \in DOMAIN runs :
        /\ FailedMidway(i)
        /\ WriteHasFailed(runs[i])
        /\ runs[i].child.state = "running"
        /\ runs[i].child.status = << >>

====
